---- MODULE Spec2Model ----
(***************************************************************************)
(* The quotation REST service (src/app.py): eight permission-protected     *)
(* routes over two tables, Person and Quote, plus the public index.  The   *)
(* model follows one request at a time from its arrival to its response,   *)
(* step by step between its round trips to the store.  The requests that   *)
(* other workers serve at the same time show to it only through the rows   *)
(* they commit, so each of their commits is a step of its own.  The token  *)
(* validator and the permission gate (auth.py) and the row operations of   *)
(* the store (models.py) are modelled after spec.md sections 4.1 - 4.3.    *)
(***************************************************************************)
EXTENDS Integers, Sequences, FiniteSets, TLC

\* ------------------------------------------------------------- bounds
MaxPersonId == 2
MaxQuoteId == 1

PersonIds == 1..MaxPersonId
QuoteIds == 1..MaxQuoteId

\* The strings requests carry: POST bodies bring Old, PATCH bodies bring New or
\* the falsy empty string.
Old == "a"
New == "b"
Empty == ""

\* ------------------------------------------------------------- routes
Index == "GET /"
GetQuotes == "GET /quotes"
GetPersons == "GET /persons"
PostQuotes == "POST /quotes"
PostPersons == "POST /persons"
PatchQuote == "PATCH /quotes/id"
PatchPerson == "PATCH /persons/id"
DeleteQuote == "DELETE /quotes/id"
DeletePerson == "DELETE /persons/id"

QuoteIdRoutes == {PatchQuote, DeleteQuote}
PersonIdRoutes == {PatchPerson, DeletePerson}
CollectionRoutes == {GetQuotes, GetPersons, PostQuotes, PostPersons}

Routes == {Index} \cup CollectionRoutes \cup QuoteIdRoutes \cup PersonIdRoutes

\* DELETE /quotes/id without its decorator.
ProtectedRoutes_without_delete == Routes \ {Index, DeleteQuote}

\* The routes that carry a @requires_auth decorator.
ProtectedRoutes == Routes \ {Index}

\* The permission string each decorator names.
RequiredPermission(r) ==
    CASE r = GetQuotes -> "get:quotes"
      [] r = GetPersons -> "get:persons"
      [] r = PostQuotes -> "create:quote"
      [] r = PostPersons -> "create:person"
      [] r = PatchQuote -> "edit:quote"
      [] r = PatchPerson -> "edit:person"
      [] r = DeleteQuote -> "remove:quote"
      [] r = DeletePerson -> "remove:person"

AllPermissions == {RequiredPermission(r) : r \in ProtectedRoutes}

\* ------------------------------------------------------------- auth
\* The ways token validation fails (spec.md 4.1) and authorization fails (4.2).
ValidationKinds ==
    {"MissingOrMalformedHeader", "MalformedToken", "KeySetUnavailable", "KeyNotFound",
     "Expired", "InvalidClaims", "InvalidSignature", "InvalidHeader"}
AuthorizationKinds == {"MissingPermissionsClaim", "Forbidden"}
AuthErrorKinds == ValidationKinds \cup AuthorizationKinds

\* The status_code an AuthError carries is set where auth.py raises it; only the
\* missing-permission case is pinned down (error 401, spec.md section 8).
StatusCodes(kind) == IF kind = "Forbidden" THEN {401} ELSE {400, 401, 403}

AuthError(kind, code) == [kind |-> kind, status_code |-> code, error |-> kind]

\* An Authorization header as the validator sees it: the first check it fails
\* ("none" for a good token), whether the payload has a permissions claim, and
\* the permissions it grants.
Header(fault, has, perms) == [fault |-> fault, has_permissions |-> has, permissions |-> perms]

HeadersFor(r) ==
    {Header(k, FALSE, {}) : k \in ValidationKinds}
      \cup {Header("none", FALSE, {})}
      \cup {Header("none", TRUE, p) :
              p \in {{}, {RequiredPermission(r)}, AllPermissions \ {RequiredPermission(r)}}}

NoClaims == [has_permissions |-> FALSE, permissions |-> {}]

\* TokenValidator.validate: the claims of a good token, else the failure kind.
validate(h) ==
    IF h.fault # "none"
    THEN [ok |-> FALSE, kind |-> h.fault, claims |-> NoClaims]
    ELSE [ok |-> TRUE, kind |-> "none",
          claims |-> [has_permissions |-> h.has_permissions, permissions |-> h.permissions]]

\* PermissionGate.authorize: "none" to allow, else the failure kind.
authorize(required, cl) ==
    IF ~cl.has_permissions THEN "MissingPermissionsClaim"
    ELSE IF required \notin cl.permissions THEN "Forbidden"
    ELSE "none"

\* ------------------------------------------------------------- responses
NoResponse == [status |-> 0]

index_response == [status |-> 200, success |-> TRUE, description |-> "Quotation system is running."]

not_found == [status |-> 404, success |-> FALSE, error |-> 404, message |-> "resource not found"]

\* abort(400) in place of abort(422).
unprocessable_as_bad_request ==
    [status |-> 400, success |-> FALSE, error |-> 400, message |-> "bad request"]

unprocessable == [status |-> 422, success |-> FALSE, error |-> 422, message |-> "Unprocessable"]

\* The handler answering with the status the exception carries.
handle_auth_error_status_code(ex) ==
    [status |-> ex.status_code, success |-> FALSE, error |-> ex.status_code, message |-> ex.error]

handle_auth_error(ex) ==
    [status |-> 401, success |-> FALSE, error |-> ex.status_code, message |-> ex.error]

\* ------------------------------------------------------------- state
\* The store: the rows of the two tables by id, and the next id of each
\* table's sequence.
VARIABLES persons, quotes, person_seq, quote_seq
\* The request in hand: where it stands (pc), its route and path id (req), the
\* claims of its token, the JSON body its handler read, the object its handler
\* inserted (loc) and its response.
VARIABLES pc, req, claims, body, loc, resp
\* history of a POST /persons: the number of persons when it arrived, and the
\* persons other requests have added (+) and removed (-) since
VARIABLES persons_at_receipt, others_net

store == <<persons, quotes, person_seq, quote_seq>>
history == <<persons_at_receipt, others_net>>
request == <<pc, req, claims, body, loc, resp>>
vars == <<persons, quotes, person_seq, quote_seq, pc, req, claims, body, loc, resp,
          persons_at_receipt, others_net>>

\* ------------------------------------------------------------- store
RECURSIVE Ascending(_)
\* order_by('id'): the ids of a table in ascending order.
Ascending(S) ==
    IF S = {} THEN <<>>
    ELSE LET m == CHOOSE x \in S : \A y \in S : x <= y
         IN <<m>> \o Ascending(S \ {m})

format_person(id, row) == [id |-> id, name |-> row.name]

format_quote(id, row) ==
    [id |-> id, title |-> row.title, description |-> row.description,
     person_id |-> row.person_id]

\* Person.query.order_by('id').all(), formatted.
list_persons(table) ==
    LET ids == Ascending(DOMAIN table)
    IN [i \in 1..Len(ids) |-> format_person(ids[i], table[ids[i]])]

\* Quote.query.order_by('id').all(), formatted.
list_quotes(table) ==
    LET ids == Ascending(DOMAIN table)
    IN [i \in 1..Len(ids) |-> format_quote(ids[i], table[ids[i]])]

insert_row(table, id, row) == [i \in DOMAIN table \cup {id} |-> IF i = id THEN row ELSE table[i]]

delete_row(table, id) == [i \in DOMAIN table \ {id} |-> table[i]]

\* The quotes that name person id.
quotes_of(id) == {q \in DOMAIN quotes : quotes[q].person_id = id}

\* What the store does with the quotes of a person that is deleted is its own
\* policy (spec.md section 9): refuse the delete, or delete them too.
DeletePolicies == {"restrict", "cascade"}

\* Person.insert(): the row is committed under the next id of the sequence.
person_insert(name) ==
    /\ person_seq <= MaxPersonId
    /\ persons' = insert_row(persons, person_seq, [name |-> name])
    /\ person_seq' = person_seq + 1
    /\ UNCHANGED <<quotes, quote_seq>>

\* Whether Quote.insert() or Quote.update() is refused: person_id names no person.
violates_foreign_key(person_id) == person_id \notin DOMAIN persons

\* Quote.insert(), of a row that names a person.
quote_insert(row) ==
    /\ quote_seq <= MaxQuoteId
    /\ quotes' = insert_row(quotes, quote_seq, row)
    /\ quote_seq' = quote_seq + 1
    /\ UNCHANGED <<persons, person_seq>>

\* Quote.update(), of a row that is there and names a person.
quote_update(id, row) ==
    /\ quotes' = [quotes EXCEPT ![id] = row]
    /\ UNCHANGED <<persons, person_seq, quote_seq>>

\* Quote.delete()
quote_delete(id) ==
    /\ quotes' = delete_row(quotes, id)
    /\ UNCHANGED <<persons, person_seq, quote_seq>>

\* Whether Person.delete() is refused under the store's policy.
delete_refused(id, policy) ==
    quotes_of(id) # {} /\ id \in DOMAIN persons /\ policy = "restrict"

\* Person.delete(), when it is not refused.
person_delete(id) ==
    /\ persons' = delete_row(persons, id)
    /\ quotes' = [q \in DOMAIN quotes \ quotes_of(id) |-> quotes[q]]
    /\ UNCHANGED <<person_seq, quote_seq>>

\* ------------------------------------------------------------- request bodies
\* A body is a record of the keys it carries with a non-null value:
\* body.get(k, None) is None exactly when k is not in its domain.
Has(b, k) == k \in DOMAIN b

Restrict(f, K) == [k \in K |-> f[k]]

NoBody == <<>>

QuoteKeys == {"title", "description", "person_id"}

\* Bodies of POST /persons and of POST /quotes.
PostPersonBodies == {NoBody, [name |-> Old]}

PostQuoteBodies ==
    {Restrict(f, K) :
        f \in [title : {Old}, description : {Old}, person_id : PersonIds],
        K \in SUBSET QuoteKeys}

\* Bodies of PATCH /persons/id and of PATCH /quotes/id; 0 is the falsy person_id.
PatchPersonBodies == {NoBody, [name |-> Empty], [name |-> New]}

PatchQuoteBodies ==
    {Restrict(f, K) :
        f \in [title : {Empty, New}, description : {Empty, New},
               person_id : PersonIds \cup {0}],
        K \in SUBSET QuoteKeys}

\* Python truthiness of a body field: present, and not "" (a string) or 0 (a number).
TruthyStr(b, k) == Has(b, k) /\ b[k] # Empty
TruthyInt(b, k) == Has(b, k) /\ b[k] # 0

\* ------------------------------------------------------------- the request in hand
NoReq == [route |-> "none", id |-> 0]
NoLoc == [id |-> 0]

InFlight == {"Received", "Authenticated", "Authorized", "Inserted", "Fetched"}

\* create_app(): the tables exist and no request has arrived.
Init ==
    /\ persons = <<>>
    /\ quotes = <<>>
    /\ person_seq = 1
    /\ quote_seq = 1
    /\ pc = "Idle"
    /\ req = NoReq
    /\ claims = NoClaims
    /\ body = NoBody
    /\ loc = NoLoc
    /\ resp = NoResponse
    /\ persons_at_receipt = 0
    /\ others_net = 0

\* The ids a request to route r may name.
IdsOf(r) ==
    IF r \in QuoteIdRoutes THEN QuoteIds
    ELSE IF r \in PersonIdRoutes THEN PersonIds
    ELSE {0}

\* The handler of route r is entered: behind its decorator once the request is
\* authorized, at once when it has none.
Entered(r) ==
    /\ req.route = r
    /\ pc = IF r \in ProtectedRoutes THEN "Authorized" ELSE "Received"

\* The handler returns or aborts: the response goes out.
Respond(r) ==
    /\ pc' = "Responded"
    /\ resp' = r

\* A request arrives; the route and the id in its path are known.
Receive ==
    /\ pc \in {"Idle", "Responded"}
    /\ \E r \in Routes : \E id \in IdsOf(r) :
          /\ req' = [route |-> r, id |-> id]
          /\ persons_at_receipt' = IF r = PostPersons THEN Cardinality(DOMAIN persons) ELSE 0
    /\ others_net' = 0
    /\ pc' = "Received"
    /\ resp' = NoResponse
    /\ body' = NoBody
    /\ loc' = NoLoc
    /\ claims' = NoClaims
    /\ UNCHANGED store

\* GET / has no decorator: the handler answers at once.
index ==
    /\ Entered(Index)
    /\ Respond(index_response)
    /\ UNCHANGED <<store, req, claims, body, loc, history>>

\* requires_auth, first half: the token of the Authorization header is validated.
Authenticate ==
    /\ pc = "Received"
    /\ req.route \in ProtectedRoutes
    /\ \E h \in HeadersFor(req.route) :
          LET v == validate(h)
          IN IF v.ok
             THEN /\ pc' = "Authenticated"
                  /\ claims' = v.claims
                  /\ UNCHANGED resp
             ELSE /\ \E code \in StatusCodes(v.kind) :
                        Respond(handle_auth_error(AuthError(v.kind, code)))
                  /\ UNCHANGED claims
    /\ UNCHANGED <<store, req, body, loc, history>>

\* requires_auth, second half: the claims must hold the route's permission.
Authorize ==
    /\ pc = "Authenticated"
    /\ LET a == authorize(RequiredPermission(req.route), claims)
       IN IF a = "none"
          THEN /\ pc' = "Authorized"
               /\ UNCHANGED resp
          ELSE \E code \in StatusCodes(a) :
                  Respond(handle_auth_error(AuthError(a, code)))
    /\ claims' = NoClaims
    /\ UNCHANGED <<store, req, body, loc, history>>

\* The answers of the two list routes.
quotes_response(listing) ==
    [status |-> 200, success |-> TRUE, quotes |-> listing, total_quotes |-> Len(listing)]

persons_response(listing) ==
    [status |-> 200, success |-> TRUE, persons |-> listing, total_persons |-> Len(listing)]

\* GET /quotes without the abort on an empty listing.
get_quotes_no_abort ==
    /\ Entered(GetQuotes)
    /\ Respond(quotes_response(list_quotes(quotes)))
    /\ UNCHANGED <<store, req, claims, body, loc, history>>

\* GET /quotes
get_quotes ==
    /\ Entered(GetQuotes)
    /\ LET listing == list_quotes(quotes)
       IN IF listing = <<>> THEN Respond(not_found) ELSE Respond(quotes_response(listing))
    /\ UNCHANGED <<store, req, claims, body, loc, history>>

\* GET /persons
get_persons ==
    /\ Entered(GetPersons)
    /\ LET listing == list_persons(persons)
       IN IF listing = <<>> THEN Respond(not_found) ELSE Respond(persons_response(listing))
    /\ UNCHANGED <<store, req, claims, body, loc, history>>

\* The check of POST /quotes on its body.
quote_body_rejected(b) == ~Has(b, "title") \/ ~Has(b, "description") \/ ~Has(b, "person_id")

\* POST /quotes up to quote.insert(): the body is checked, the row is committed.
\* A person_id that names no person makes insert() raise inside the try.
create_quote ==
    /\ Entered(PostQuotes)
    /\ \E b \in PostQuoteBodies :
          /\ body' = b
          /\ IF quote_body_rejected(b)
             THEN /\ Respond(unprocessable)
                  /\ UNCHANGED <<store, loc>>
             ELSE IF violates_foreign_key(b.person_id)
             THEN /\ Respond(unprocessable)
                  /\ UNCHANGED <<store, loc>>
             ELSE /\ quote_insert([title |-> b.title, description |-> b.description,
                                   person_id |-> b.person_id])
                  /\ loc' = [id |-> quote_seq]
                  /\ pc' = "Inserted"
                  /\ UNCHANGED resp
    /\ UNCHANGED <<req, claims, history>>

\* The answer of POST /quotes once the table has been listed again.
created_quote_response(own, listing) ==
    [status |-> 200, success |-> TRUE, created |-> own, quotes |-> listing,
     total_quotes |-> Len(listing)]

\* POST /quotes after the insert: the table is listed again and the answer built.
\* quote.id is read from the inserted object, which the commit expired: when the
\* row is gone by now the read raises inside the try.
create_quote_refresh ==
    /\ pc = "Inserted"
    /\ req.route = PostQuotes
    /\ IF loc.id \in DOMAIN quotes
       THEN Respond(created_quote_response(loc.id, list_quotes(quotes)))
       ELSE Respond(unprocessable)
    /\ UNCHANGED <<store, req, claims, body, loc, history>>

\* The check of POST /persons on its body.
person_body_rejected(b) == ~Has(b, "name")

\* POST /persons up to person.insert().
create_person ==
    /\ Entered(PostPersons)
    /\ \E b \in PostPersonBodies :
          /\ body' = b
          /\ IF person_body_rejected(b)
             THEN /\ Respond(unprocessable)
                  /\ UNCHANGED <<store, loc>>
             ELSE /\ person_insert(b.name)
                  /\ loc' = [id |-> person_seq]
                  /\ pc' = "Inserted"
                  /\ UNCHANGED resp
    /\ UNCHANGED <<req, claims, history>>

\* The comprehension variable leaking into the handler: created is the id of the
\* last row listed.
created_person_response_last_listed(own, listing) ==
    [status |-> 200, success |-> TRUE, created |-> listing[Len(listing)].id,
     persons |-> listing, total_persons |-> Len(listing)]

\* The count taken as if nothing but this insert had happened.
created_person_response_count_from_id(own, listing) ==
    [status |-> 200, success |-> TRUE, created |-> own, persons |-> listing,
     total_persons |-> own]

\* The answer of POST /persons once the table has been listed again.
created_person_response(own, listing) ==
    [status |-> 200, success |-> TRUE, created |-> own, persons |-> listing,
     total_persons |-> Len(listing)]

\* POST /persons after the insert.
create_person_refresh ==
    /\ pc = "Inserted"
    /\ req.route = PostPersons
    /\ IF loc.id \in DOMAIN persons
       THEN Respond(created_person_response(loc.id, list_persons(persons)))
       ELSE Respond(unprocessable)
    /\ UNCHANGED <<store, req, claims, body, loc, history>>

\* The assignments guarded by "is not None" in place of truthiness.
apply_quote_fields_not_none(row, b) ==
    [title |-> IF Has(b, "title") THEN b.title ELSE row.title,
     description |-> IF Has(b, "description") THEN b.description ELSE row.description,
     person_id |-> IF Has(b, "person_id") THEN b.person_id ELSE row.person_id]

\* The assignments of edit_quote: a field is written when the body's value is truthy.
apply_quote_fields(row, b) ==
    [title |-> IF TruthyStr(b, "title") THEN b.title ELSE row.title,
     description |-> IF TruthyStr(b, "description") THEN b.description ELSE row.description,
     person_id |-> IF TruthyInt(b, "person_id") THEN b.person_id ELSE row.person_id]

\* PATCH /quotes/id up to get_or_404.
edit_quote_fetch ==
    /\ Entered(PatchQuote)
    /\ \E b \in PatchQuoteBodies :
          /\ body' = b
          /\ IF req.id \in DOMAIN quotes
             THEN /\ pc' = "Fetched"
                  /\ UNCHANGED resp
             ELSE Respond(not_found)
    /\ UNCHANGED <<store, req, claims, loc, history>>

\* PATCH /quotes/id from the assignments to quote.update(): one UPDATE of the row.
\* It raises when the row is gone by now or the new person_id names no person.
edit_quote ==
    /\ pc = "Fetched"
    /\ req.route = PatchQuote
    /\ IF req.id \notin DOMAIN quotes
       THEN /\ Respond(unprocessable)
            /\ UNCHANGED store
       ELSE LET row == apply_quote_fields(quotes[req.id], body)
            IN IF violates_foreign_key(row.person_id)
               THEN /\ Respond(unprocessable)
                    /\ UNCHANGED store
               ELSE /\ quote_update(req.id, row)
                    /\ Respond([status |-> 200, success |-> TRUE, quote_id |-> req.id])
    /\ UNCHANGED <<req, claims, body, loc, history>>

\* PATCH /persons/id: the name is assigned to the fetched object and the answer
\* returned; person.update() is never called, so nothing is committed and the
\* session is dropped with the request.
edit_person ==
    /\ Entered(PatchPerson)
    /\ \E b \in PatchPersonBodies :
          /\ body' = b
          /\ IF req.id \in DOMAIN persons
             THEN Respond([status |-> 200, success |-> TRUE, person_id |-> req.id])
             ELSE Respond(not_found)
    /\ UNCHANGED <<store, req, claims, loc, history>>

\* DELETE /quotes/id fetching with get() in place of get_or_404().
remove_quote_fetch_no_404 ==
    /\ Entered(DeleteQuote)
    /\ pc' = "Fetched"
    /\ UNCHANGED <<store, req, claims, body, loc, resp, history>>

\* DELETE /quotes/id up to get_or_404.
remove_quote_fetch ==
    /\ Entered(DeleteQuote)
    /\ IF req.id \in DOMAIN quotes
       THEN /\ pc' = "Fetched"
            /\ UNCHANGED resp
       ELSE Respond(not_found)
    /\ UNCHANGED <<store, req, claims, body, loc, history>>

\* DELETE /quotes/id answering without quote.delete().
remove_quote_no_delete ==
    /\ pc = "Fetched"
    /\ req.route = DeleteQuote
    /\ Respond([status |-> 200, success |-> TRUE, id |-> req.id])
    /\ UNCHANGED <<store, req, claims, body, loc, history>>

\* DELETE /quotes/id: quote.delete() and the answer.
remove_quote ==
    /\ pc = "Fetched"
    /\ req.route = DeleteQuote
    /\ quote_delete(req.id)
    /\ Respond([status |-> 200, success |-> TRUE, id |-> req.id])
    /\ UNCHANGED <<req, claims, body, loc, history>>

\* DELETE /persons/id up to get_or_404.
remove_person_fetch ==
    /\ Entered(DeletePerson)
    /\ IF req.id \in DOMAIN persons
       THEN /\ pc' = "Fetched"
            /\ UNCHANGED resp
       ELSE Respond(not_found)
    /\ UNCHANGED <<store, req, claims, body, loc, history>>

\* DELETE /persons/id: person.delete() and the answer.
remove_person ==
    /\ pc = "Fetched"
    /\ req.route = DeletePerson
    /\ \E policy \in DeletePolicies :
          IF delete_refused(req.id, policy)
          THEN /\ Respond(unprocessable)
               /\ UNCHANGED store
          ELSE /\ person_delete(req.id)
               /\ Respond([status |-> 200, success |-> TRUE, id |-> req.id])
    /\ UNCHANGED <<req, claims, body, loc, history>>

\* ------------------------------------------------------------- the other requests
\* While the request in hand is in flight, other workers commit the writes of
\* their own requests: each is one transaction of one of the handlers above.
\* (A commit between two requests is a commit while the next one is Received.)
other_create_person ==
    /\ pc \in InFlight
    /\ \E b \in PostPersonBodies : ~person_body_rejected(b) /\ person_insert(b.name)
    /\ others_net' = IF req.route = PostPersons THEN others_net + 1 ELSE others_net
    /\ UNCHANGED <<request, persons_at_receipt>>

other_create_quote ==
    /\ pc \in InFlight
    /\ \E b \in PostQuoteBodies :
          /\ ~quote_body_rejected(b)
          /\ ~violates_foreign_key(b.person_id)
          /\ quote_insert([title |-> b.title, description |-> b.description,
                           person_id |-> b.person_id])
    /\ UNCHANGED <<request, history>>

other_edit_quote ==
    /\ pc \in InFlight
    /\ \E id \in DOMAIN quotes :
          \E row \in {apply_quote_fields(quotes[id], b) : b \in PatchQuoteBodies} :
             /\ ~violates_foreign_key(row.person_id)
             /\ row # quotes[id]
             /\ quote_update(id, row)
    /\ UNCHANGED <<request, history>>

other_remove_quote ==
    /\ pc \in InFlight
    /\ \E id \in DOMAIN quotes : quote_delete(id)
    /\ UNCHANGED <<request, history>>

other_remove_person ==
    /\ pc \in InFlight
    /\ \E id \in DOMAIN persons : \E policy \in DeletePolicies :
          ~delete_refused(id, policy) /\ person_delete(id)
    /\ others_net' = IF req.route = PostPersons THEN others_net - 1 ELSE others_net
    /\ UNCHANGED <<request, persons_at_receipt>>

Next ==
    \/ Receive
    \/ index
    \/ Authenticate
    \/ Authorize
    \/ get_quotes
    \/ get_persons
    \/ create_quote
    \/ create_quote_refresh
    \/ create_person
    \/ create_person_refresh
    \/ edit_quote_fetch
    \/ edit_quote
    \/ edit_person
    \/ remove_quote_fetch
    \/ remove_quote
    \/ remove_person_fetch
    \/ remove_person
    \/ other_create_person
    \/ other_create_quote
    \/ other_edit_quote
    \/ other_remove_quote
    \/ other_remove_person

Spec == Init /\ [][Next]_vars

\* ------------------------------------------------------------- properties
Answered == pc = "Responded"

\* The response is the one handle_auth_error builds for some AuthError.
IsAuthFailure(r) == ~r.success /\ r.message \in AuthErrorKinds

\* The request in hand takes a step of its own (not a commit of another request).
OwnStep == pc' # pc

\* C1: on every protected route an authentication or authorization failure of
\* any kind, a valid token without the route's permission included, is answered
\* with status 401 and never 403.
C1_AuthFailuresAre401 ==
    (Answered /\ req.route # Index /\ IsAuthFailure(resp))
        => (resp.status = 401 /\ resp.status # 403)

C1_Witness ==
    /\ Answered
    /\ req.route = PatchPerson
    /\ resp.message = "Forbidden"
    /\ resp.status = 401

PhaseEdges ==
    {<<"Idle", "Received">>, <<"Responded", "Received">>,
     <<"Received", "Authenticated">>, <<"Authenticated", "Authorized">>,
     <<"Authorized", "Inserted">>, <<"Authorized", "Fetched">>,
     <<"Inserted", "Responded">>, <<"Fetched", "Responded">>,
     <<"Received", "Responded">>, <<"Authenticated", "Responded">>,
     <<"Authorized", "Responded">>}

\* C2: a request moves Received, Authenticated, Authorized, executed (Inserted or
\* Fetched where the handler makes two round trips), Responded in that order; on
\* a protected route the steps before Authorized leave the store alone and end
\* only in an auth failure response, and the request touches the store only
\* once it is Authorized.
C2_StateMachine ==
    [][/\ OwnStep => <<pc, pc'>> \in PhaseEdges
       /\ (OwnStep /\ req.route # Index /\ pc \in {"Received", "Authenticated"})
             => /\ UNCHANGED store
                /\ pc' = "Responded" => (IsAuthFailure(resp') /\ resp'.status = 401)
       /\ (OwnStep /\ store' # store) => pc \in {"Authorized", "Inserted", "Fetched"}
      ]_vars

\* An auth failure on a DELETE whose id is unknown as well, with rows in the store.
C2_Witness ==
    /\ Answered
    /\ req.route = DeleteQuote
    /\ IsAuthFailure(resp)
    /\ req.id \notin DOMAIN quotes
    /\ DOMAIN persons # {}

\* C3: a POST /quotes whose body lacks title, description or person_id, and a
\* POST /persons whose body lacks name, is answered 422 "Unprocessable" and
\* leaves both tables as they were.
C3_RejectedCreate ==
    [][(/\ OwnStep
        /\ pc = "Authorized"
        /\ \/ req.route = PostQuotes /\ \E k \in QuoteKeys : k \notin DOMAIN body'
           \/ req.route = PostPersons /\ "name" \notin DOMAIN body')
          => /\ pc' = "Responded"
             /\ resp' = [status |-> 422, success |-> FALSE, error |-> 422,
                         message |-> "Unprocessable"]
             /\ persons' = persons
             /\ quotes' = quotes
      ]_vars

\* A quote body without person_id rejected while a person and a free id exist.
C3_Witness ==
    /\ Answered
    /\ req.route = PostQuotes
    /\ DOMAIN body = {"title", "description"}
    /\ resp.status = 422
    /\ DOMAIN persons # {}
    /\ quote_seq <= MaxQuoteId

\* C4: after a 200 to PATCH /persons/id with a non-empty name, the stored person
\* with that id has the supplied name.
C4_EditPersonApplies ==
    (Answered /\ req.route = PatchPerson /\ resp.status = 200 /\ TruthyStr(body, "name"))
        => (req.id \in DOMAIN persons /\ persons[req.id].name = body.name)

C6_UnknownId ==
    [][(/\ OwnStep
        /\ pc = "Authorized"
        /\ \/ req.route \in QuoteIdRoutes /\ req.id \notin DOMAIN quotes
           \/ req.route \in PersonIdRoutes /\ req.id \notin DOMAIN persons)
          => /\ pc' = "Responded"
             /\ resp' = [status |-> 404, success |-> FALSE, error |-> 404,
                         message |-> "resource not found"]
             /\ UNCHANGED store
      ]_vars

\* A DELETE of an id that was assigned and is gone, while another row remains.
C6_Witness ==
    /\ Answered
    /\ req.route = DeletePerson
    /\ resp.status = 404
    /\ req.id < person_seq
    /\ DOMAIN persons # {}

\* The listing shows exactly the rows of the table, in ascending id order.
Lists(listing, table) ==
    /\ {listing[i].id : i \in 1..Len(listing)} = DOMAIN table
    /\ Len(listing) = Cardinality(DOMAIN table)
    /\ \A i \in 1..Len(listing) : \A j \in 1..Len(listing) :
          i < j => listing[i].id < listing[j].id

\* C7: an authorized GET /quotes (GET /persons) is answered 200 exactly when the
\* table has rows, and 404 when it has none; total_quotes (total_persons) is
\* then the number of rows returned, which are the table's rows by ascending id.
C7_ListOrNotFound ==
    /\ (Answered /\ req.route = GetQuotes /\ ~IsAuthFailure(resp))
          => /\ resp.status = 200 <=> DOMAIN quotes # {}
             /\ resp.status # 200 => resp.status = 404
             /\ resp.status = 200 =>
                   /\ resp.total_quotes = Len(resp.quotes)
                   /\ Lists(resp.quotes, quotes)
                   /\ \A i \in 1..Len(resp.quotes) :
                         resp.quotes[i] = format_quote(resp.quotes[i].id, quotes[resp.quotes[i].id])
    /\ (Answered /\ req.route = GetPersons /\ ~IsAuthFailure(resp))
          => /\ resp.status = 200 <=> DOMAIN persons # {}
             /\ resp.status # 200 => resp.status = 404
             /\ resp.status = 200 =>
                   /\ resp.total_persons = Len(resp.persons)
                   /\ Lists(resp.persons, persons)
                   /\ \A i \in 1..Len(resp.persons) :
                         resp.persons[i] = format_person(resp.persons[i].id, persons[resp.persons[i].id])

\* An empty quote table answered 404 after ids had been assigned, and (second)
\* a listing of two persons.
C7_Witness ==
    /\ Answered
    /\ req.route = GetQuotes
    /\ resp.status = 404
    /\ quote_seq > 1

C7_WitnessListed ==
    /\ Answered
    /\ req.route = GetPersons
    /\ resp.status = 200
    /\ resp.total_persons = 2

C9_CountAtReceiptPlusOne ==
    (Answered /\ req.route = PostPersons /\ resp.status = 200)
        => resp.total_persons = persons_at_receipt + 1

\* C9 amended: total_persons is the number of persons when the request arrived,
\* plus 1, plus the persons other requests inserted and minus the persons they
\* deleted between the arrival and the listing.
C9_CountAtListing ==
    (Answered /\ req.route = PostPersons /\ resp.status = 200)
        => resp.total_persons = persons_at_receipt + 1 + others_net

C9_Witness ==
    /\ Answered
    /\ req.route = PostPersons
    /\ resp.status = 200
    /\ others_net = 1
    /\ resp.total_persons = persons_at_receipt + 2

====
